---- MODULE Spec2Model ----
(***************************************************************************)
(* A model of the PDF-to-EPUB converter: the command-line pipeline of      *)
(* pdf_to_epub.py (client setup, stylesheet, parsing, image extraction,    *)
(* per-page refinement, packaging), and the stand-alone components of      *)
(* pdf_to_epub_converter/ (ImageExtractor, LayoutRefinerLLM).              *)
(*                                                                         *)
(* Python strings are sequences of one-character strings, so that          *)
(* replace, startswith, strip and the pathlib accessors are computed the   *)
(* way the library computes them.  A Python value that may be None, or a   *)
(* dictionary key that may be missing, is a record with a boolean flag     *)
(* beside the value.                                                        *)
(***************************************************************************)
EXTENDS Integers, Sequences, FiniteSets, TLC

(***************************************************************************)
(* Bounds of the model.                                                    *)
(***************************************************************************)
\* pages of the layout document of a command-line run
MaxPages == 3
\* elements of the page of a one-page document
MaxElems == 2
\* pages of the PDF the ImageExtractor reads
MaxPdfPages == 2
\* images on one page of that PDF
MaxPageImages == 2
\* elements of the page LayoutRefinerLLM.refine_layout is given
MaxLayoutElems == 2
\* calls of create_global_stylesheet in a row
MaxStyleCalls == 3
\* page files in the list given to create_epub_file
MaxPackagePages == 2
\* image paths in the list given to create_epub_file
MaxPackageImages == 2
\* characters of an origin reference given to the sanitization
MaxRefLen == 4

(***************************************************************************)
(* Strings.                                                                *)
(***************************************************************************)
\* s[a..b], empty when a > b
Slice(s, a, b) == IF a > b THEN <<>> ELSE SubSeq(s, a, b)

\* str.startswith
StartsWith(s, p) == Len(p) <= Len(s) /\ Slice(s, 1, Len(p)) = p

\* str.endswith
EndsWith(s, p) == Len(p) <= Len(s) /\ Slice(s, Len(s) - Len(p) + 1, Len(s)) = p

\* str.replace(old, new): leftmost, non-overlapping occurrences, one pass
RECURSIVE Replace(_, _, _)
Replace(s, old, new) ==
    IF s = <<>> THEN <<>>
    ELSE IF StartsWith(s, old)
         THEN new \o Replace(Slice(s, Len(old) + 1, Len(s)), old, new)
         ELSE <<s[1]>> \o Replace(Slice(s, 2, Len(s)), old, new)

\* str.split(sep) for a one-character separator
RECURSIVE SplitOn(_, _)
SplitOn(s, sep) ==
    IF \A k \in 1..Len(s) : s[k] # sep THEN <<s>>
    ELSE LET k == CHOOSE k \in 1..Len(s) :
                      s[k] = sep /\ \A j \in 1..(k - 1) : s[j] # sep
         IN <<Slice(s, 1, k - 1)>> \o SplitOn(Slice(s, k + 1, Len(s)), sep)

\* the decimal digits
DigitChars == <<"0", "1", "2", "3", "4", "5", "6", "7", "8", "9">>

\* str(n) for n >= 0
RECURSIVE Decimal(_)
Decimal(n) ==
    IF n < 10 THEN <<DigitChars[n + 1]>>
    ELSE Decimal(n \div 10) \o <<DigitChars[(n % 10) + 1]>>

\* zero padding on the left up to a width
RECURSIVE ZeroPad(_, _)
ZeroPad(s, width) == IF Len(s) >= width THEN s ELSE ZeroPad(<<"0">> \o s, width)

\* format(n, "04d"): the sign counts in the width
Format04d(n) ==
    IF n < 0 THEN <<"-">> \o ZeroPad(Decimal(0 - n), 3) ELSE ZeroPad(Decimal(n), 4)

(***************************************************************************)
(* pathlib.                                                                *)
(***************************************************************************)
\* PurePosixPath(s).parts without the root: empty and "." components go
PathParts(s) ==
    SelectSeq(SplitOn(s, "/"), LAMBDA c : c # <<>> /\ c # <<".">>)

\* PurePosixPath(s).name
PathName(s) ==
    LET parts == PathParts(s) IN IF parts = <<>> THEN <<>> ELSE parts[Len(parts)]

\* PurePosixPath(s).stem: the name without its last suffix
PathStem(s) ==
    LET name == PathName(s)
        dots == {k \in 1..Len(name) : name[k] = "."}
        last == IF dots = {} THEN 0 ELSE CHOOSE k \in dots : \A j \in dots : j <= k
    IN IF 1 < last /\ last < Len(name) THEN Slice(name, 1, last - 1) ELSE name

\* dir / name for a name that has no "/" in it
PathJoin(dir, name) == dir \o <<"/">> \o name

(***************************************************************************)
(* Python dictionaries: sequences of <<key, value>> with distinct keys,    *)
(* in insertion order.                                                     *)
(***************************************************************************)
DictKeys(d) == {d[k][1] : k \in 1..Len(d)}

DictHas(d, key) == key \in DictKeys(d)

DictGet(d, key) == d[CHOOSE k \in 1..Len(d) : d[k][1] = key][2]

\* d[key] = value
DictSet(d, key, value) ==
    IF DictHas(d, key)
    THEN [k \in 1..Len(d) |-> IF d[k][1] = key THEN <<key, value>> ELSE d[k]]
    ELSE Append(d, <<key, value>>)

\* list(d.values())
DictValues(d) == [k \in 1..Len(d) |-> d[k][2]]

\* every sequence over S of length at most n
SeqUpTo(S, n) == UNION {[1..k -> S] : k \in 0..n}

(***************************************************************************)
(* Fixed names of the working directory and of the package.                *)
(***************************************************************************)
ImagesDirName == <<"I", "m", "a", "g", "e", "s">>
TextDirName == <<"T", "e", "x", "t">>
TextDirPath == <<"O", "E", "B", "P", "S", "/">> \o TextDirName
PngSuffix == <<".", "p", "n", "g">>
XhtmlSuffix == <<".", "x", "h", "t", "m", "l">>
PagePrefix == <<"p", "a", "g", "e", "_">>
StylesheetOebpsPath ==
    <<"S", "t", "y", "l", "e", "s", "/", "s", "t", "y", "l", "e", ".", "c", "s", "s">>
NavUid == <<"n", "a", "v">>
NavFileName == <<"n", "a", "v", ".", "x", "h", "t", "m", "l">>
NcxUid == <<"n", "c", "x">>
NcxFileName == <<"t", "o", "c", ".", "n", "c", "x">>

(***************************************************************************)
(* The layout document.                                                    *)
(***************************************************************************)
\* origin references of image elements: docling's "#/..." form, a bare
\* name, a name with a directory, a name with an underscore
RefPicture == <<"#", "/", "a">>
RefBare == <<"a">>
RefNested == <<"a", "/", "b">>
RefUnderscore == <<"a", "_", "b">>
Refs == {RefPicture, RefBare, RefNested, RefUnderscore}

TextElement == [type |-> "text", has_ref |-> FALSE, ref |-> <<>>]
ImageElement(r) == [type |-> "image", has_ref |-> TRUE, ref |-> r]
\* an image element without a 'ref' key
ImageNoRef == [type |-> "image", has_ref |-> FALSE, ref |-> <<>>]

\* a heading element; 'level' is an optional key
HeadingElement(has_level, level) ==
    [type |-> "heading", has_ref |-> FALSE, ref |-> <<>>, has_level |-> has_level, level |-> level]

\* a page dictionary; page_no and elements are optional keys
Page(has_no, no, has_els, els) ==
    [has_page_no |-> has_no, page_no |-> no, has_elements |-> has_els, elements |-> els]

\* the empty files of a directory
NoFiles == [n \in {} |-> <<>>]

\* a file written (or overwritten) in a directory: name -> content
FsWrite(fs, name, content) ==
    [n \in (DOMAIN fs) \cup {name} |-> IF n = name THEN content ELSE fs[n]]

(***************************************************************************)
(* extract_and_save_images.                                                *)
(***************************************************************************)
\* page.get('elements', [])
ElementsOf(page) == IF page.has_elements THEN page.elements ELSE <<>>

\* the refs of a page's image elements that have a non-empty ref, in order
PageImageRefs(page) ==
    LET imgs == SelectSeq(ElementsOf(page),
                          LAMBDA e : e.type = "image" /\ e.has_ref /\ e.ref # <<>>)
    IN [k \in 1..Len(imgs) |-> imgs[k].ref]

\* the same for every page of the layout, in page order
RECURSIVE LayoutImageRefs(_)
LayoutImageRefs(pages) ==
    IF pages = <<>> THEN <<>>
    ELSE PageImageRefs(Head(pages)) \o LayoutImageRefs(Tail(pages))

\* img_ref.replace("#/", "").replace("/", "_")
SanitizeRef(img_ref) == Replace(Replace(img_ref, <<"#", "/">>, <<>>), <<"/">>, <<"_">>)

\* f"{sanitized_ref}.png"
ImageFilename(img_ref) == SanitizeRef(img_ref) \o PngSuffix

\* a mapping whose paths start at the working directory
ImageRelativePath_FromWorkDir(img_ref) ==
    PathJoin(<<"O", "E", "B", "P", "S", "/">> \o ImagesDirName, ImageFilename(img_ref))

\* str(image_save_path.relative_to(images_output_dir.parent))
ImageRelativePath(img_ref) == PathJoin(ImagesDirName, ImageFilename(img_ref))

\* what may happen to one image element: no PictureItem under its ref, no
\* PIL image from the PictureItem, an exception, or the image saved
ImageOutcomes == {"no_picture_item", "no_pil_image", "error", "saved"}

\* a loop that ends at the first image that is not saved
RECURSIVE SaveImages_StopsAtFailure(_, _, _)
SaveImages_StopsAtFailure(refs, outcomes, acc) ==
    IF refs = <<>> \/ Head(outcomes) # "saved" THEN acc
    ELSE SaveImages_StopsAtFailure(
             Tail(refs), Tail(outcomes),
             [map |-> DictSet(acc.map, Head(refs), ImageRelativePath(Head(refs))),
              files |-> FsWrite(acc.files, ImageFilename(Head(refs)), Head(refs))])

\* the loop over the image elements: acc is the mapping and the Images
\* directory so far; outcomes[k] is what happens to the k-th image
RECURSIVE SaveImages(_, _, _)
SaveImages(refs, outcomes, acc) ==
    IF refs = <<>> THEN acc
    ELSE LET img_ref == Head(refs)
             step == IF Head(outcomes) = "saved"
                     THEN [map |-> DictSet(acc.map, img_ref, ImageRelativePath(img_ref)),
                           files |-> FsWrite(acc.files, ImageFilename(img_ref), img_ref)]
                     ELSE acc
         IN SaveImages(Tail(refs), Tail(outcomes), step)

\* extract_and_save_images: the mapping it returns and the files it leaves
extract_and_save_images(has_pictures, pages, outcomes, files) ==
    IF ~has_pictures THEN [map |-> <<>>, files |-> files]
    ELSE SaveImages(LayoutImageRefs(pages), outcomes, [map |-> <<>>, files |-> files])

(***************************************************************************)
(* refine_page_to_xhtml.                                                   *)
(***************************************************************************)
\* a rewriting that empties the ref of an image that is not in the mapping
RewriteElement_DropsUnmapped(element, image_references) ==
    IF element.type # "image" THEN element
    ELSE IF element.has_ref /\ element.ref # <<>> /\ DictHas(image_references, element.ref)
         THEN [element EXCEPT !.ref = PathName(DictGet(image_references, element.ref))]
         ELSE IF element.has_ref THEN [element EXCEPT !.ref = <<>>] ELSE element

\* a rewriting that leaves every element as the layout document has it
RewriteElement_KeepRef(element, image_references) == element

\* the rewriting of one element of the copy of the page
RewriteElement(element, image_references) ==
    IF element.type # "image" THEN element
    ELSE IF element.has_ref /\ element.ref # <<>> /\ DictHas(image_references, element.ref)
         THEN [element EXCEPT !.ref = PathName(DictGet(image_references, element.ref))]
         ELSE IF element.has_ref /\ element.ref # <<>>
              THEN [element EXCEPT !.ref = PathName(element.ref)]
              ELSE element

\* a copy of the page whose elements are in reverse order
PageDataForLlm_Reversed(page_data, image_references) ==
    IF ~page_data.has_elements THEN page_data
    ELSE [page_data EXCEPT !.elements =
              [k \in 1..Len(page_data.elements) |->
                   RewriteElement(page_data.elements[Len(page_data.elements) + 1 - k],
                                  image_references)]]

\* page_data_for_llm: the deep copy of the page with its image refs rewritten
PageDataForLlm(page_data, image_references) ==
    IF ~page_data.has_elements THEN page_data
    ELSE [page_data EXCEPT !.elements =
              [k \in 1..Len(page_data.elements) |->
                   RewriteElement(page_data.elements[k], image_references)]]

\* a rewriting done on the page itself: the caller's page is the rewritten one
InputsAfterCall_InPlace(page_data, image_references) ==
    [page_data |-> PageDataForLlm(page_data, image_references),
     image_references |-> image_references]

\* line 221: the rewriting works on copy.deepcopy(page_data), and the
\* mapping is only read: the caller's page and mapping after the call
InputsAfterCall(page_data, image_references) ==
    [page_data |-> page_data, image_references |-> image_references]

Whitespace == {" ", "\n", "\t"}

\* str.strip()
RECURSIVE Strip(_)
Strip(s) ==
    IF s = <<>> THEN s
    ELSE IF s[1] \in Whitespace THEN Strip(Slice(s, 2, Len(s)))
    ELSE IF s[Len(s)] \in Whitespace THEN Strip(Slice(s, 1, Len(s) - 1))
    ELSE s

\* the markdown fence; the backquote is written "^", the TLA+ lexer having
\* no backquote in strings
Fence == <<"^", "^", "^">>
FenceXml == Fence \o <<"x", "m", "l">>

\* the removal of the markdown fence, then strip()
StripFences(xhtml_content) ==
    LET opened == IF StartsWith(xhtml_content, FenceXml)
                  THEN Slice(xhtml_content, Len(FenceXml) + 1, Len(xhtml_content))
                  ELSE IF StartsWith(xhtml_content, Fence)
                       THEN Slice(xhtml_content, Len(Fence) + 1, Len(xhtml_content))
                       ELSE xhtml_content
        closed == IF opened # xhtml_content /\ EndsWith(opened, Fence)
                  THEN Slice(opened, 1, Len(opened) - Len(Fence))
                  ELSE opened
    IN Strip(closed)

\* f"page_{page_number:04d}.xhtml"
XhtmlFileName(page_number) == PagePrefix \o Format04d(page_number) \o XhtmlSuffix

\* the path of the file under the working directory
XhtmlFilePath(page_number) == PathJoin(TextDirPath, XhtmlFileName(page_number))

\* the renderer's answers: the call raises (openai.APIError or another
\* exception), the content is None, or the content is a string
Raised(kind) == [kind |-> kind, content |-> <<>>]
ContentNone == [kind |-> "none", content |-> <<>>]
Content(s) == [kind |-> "content", content |-> s]

\* lines 259-262: the call returned and its content is not empty, so that
\* line 288 is reached and the page file is opened
WriteAttempted(response) == response.kind = "content" /\ response.content # <<>>

\* refine_page_to_xhtml returned None
ReturnedNone == [ok |-> FALSE, path |-> <<>>, content |-> <<>>]

\* a refinement that writes a page file for a renderer answer without content
refine_page_to_xhtml_WritesEmpty(response, write_ok, page_number) ==
    IF response.kind \in {"api_error", "error"} THEN ReturnedNone
    ELSE IF ~write_ok THEN ReturnedNone
    ELSE [ok |-> TRUE, path |-> XhtmlFilePath(page_number),
          content |-> StripFences(response.content)]

\* the value refine_page_to_xhtml returns, with the content it wrote
refine_page_to_xhtml(response, write_ok, page_number) ==
    IF response.kind \in {"api_error", "error"} THEN ReturnedNone
    ELSE IF response.kind = "none" \/ response.content = <<>> THEN ReturnedNone
    ELSE IF ~write_ok THEN ReturnedNone
    ELSE [ok |-> TRUE, path |-> XhtmlFilePath(page_number),
          content |-> StripFences(response.content)]

(***************************************************************************)
(* create_global_stylesheet.                                               *)
(***************************************************************************)
StyleMarginTop == 72
StyleMarginLeft == 72
StyleMarginRight == 72
StyleMarginBottom == 60

\* one rule of the stylesheet; margins is <<top, left, right, bottom>> for
\* the @page rule and empty for the others
CssRule(selector, margins) == [selector |-> selector, margins |-> margins]

\* css_content, rule by rule
CssContent ==
    << CssRule("@page", <<StyleMarginTop, StyleMarginLeft,
                          StyleMarginRight, StyleMarginBottom>>),
       CssRule("body", <<>>), CssRule("h1, h2, h3, h4, h5, h6", <<>>),
       CssRule("p", <<>>), CssRule("img", <<>>), CssRule(".page", <<>>),
       CssRule(".page-number", <<>>) >>

\* a file that does not exist
NoFile == [exists |-> FALSE, content |-> <<>>]

\* open(path, "a") and write: the former content stays
WriteFile_Append(file, content) == [exists |-> TRUE, content |-> file.content \o content]

\* open(path, "w") and write: the former content goes
WriteFile(file, content) == [exists |-> TRUE, content |-> content]

\* what the file system does to a call: the file is written, or open raises,
\* or open succeeds and the write raises
StylesheetOutcomes == {"written", "open_raises", "write_raises"}

\* a stylesheet whose bottom margin is the top margin
create_global_stylesheet_EvenMargins(file, outcome) ==
    IF outcome = "written"
    THEN WriteFile(file, [CssContent EXCEPT ![1] =
                              CssRule("@page", <<StyleMarginTop, StyleMarginLeft,
                                                 StyleMarginRight, StyleMarginTop>>)])
    ELSE IF outcome = "write_raises" THEN WriteFile(file, <<>>)
    ELSE file

\* create_global_stylesheet: the file at stylesheet_path after the call; an
\* IOError is caught: one of open leaves the file as it was, one of the
\* write leaves the file open(path, "w") has emptied
create_global_stylesheet(file, outcome) ==
    IF outcome = "written" THEN WriteFile(file, CssContent)
    ELSE IF outcome = "write_raises" THEN WriteFile(file, <<>>)
    ELSE file

(***************************************************************************)
(* get_image_media_type and create_epub_file.                              *)
(***************************************************************************)
LowerChars == <<"a", "b", "c", "d", "e", "f", "g", "h", "i", "j", "k", "l", "m",
                "n", "o", "p", "q", "r", "s", "t", "u", "v", "w", "x", "y", "z">>
UpperChars == <<"A", "B", "C", "D", "E", "F", "G", "H", "I", "J", "K", "L", "M",
                "N", "O", "P", "Q", "R", "S", "T", "U", "V", "W", "X", "Y", "Z">>

IsLower(c) == \E k \in 1..26 : LowerChars[k] = c
IsUpper(c) == \E k \in 1..26 : UpperChars[k] = c
ToLower(c) == IF IsUpper(c) THEN LowerChars[CHOOSE k \in 1..26 : UpperChars[k] = c] ELSE c
ToUpper(c) == IF IsLower(c) THEN UpperChars[CHOOSE k \in 1..26 : LowerChars[k] = c] ELSE c

\* str.lower()
Lower(s) == [k \in 1..Len(s) |-> ToLower(s[k])]

\* str.title(): a letter is upper case after a non-letter, lower case after a letter
Title(s) ==
    [k \in 1..Len(s) |->
        IF k > 1 /\ (IsLower(s[k - 1]) \/ IsUpper(s[k - 1]))
        THEN ToLower(s[k]) ELSE ToUpper(s[k])]

\* PurePosixPath(s).suffix
PathSuffix(s) ==
    LET name == PathName(s)
        stem == PathStem(s)
    IN Slice(name, Len(stem) + 1, Len(name))

get_image_media_type(image_filename) ==
    LET ext == Lower(PathSuffix(image_filename))
    IN IF ext = <<".", "j", "p", "g">> \/ ext = <<".", "j", "p", "e", "g">> THEN "image/jpeg"
       ELSE IF ext = <<".", "p", "n", "g">> THEN "image/png"
       ELSE IF ext = <<".", "g", "i", "f">> THEN "image/gif"
       ELSE IF ext = <<".", "s", "v", "g">> THEN "image/svg+xml"
       ELSE "application/octet-stream"

\* an item of the book
EpubItem(uid, file_name, media_type) ==
    [uid |-> uid, file_name |-> file_name, media_type |-> media_type]

\* the EpubHtml item of one page file
EpubHtmlItem(xhtml_file_path) ==
    EpubItem(PathStem(xhtml_file_path),
             PathJoin(TextDirName, PathName(xhtml_file_path)),
             "application/xhtml+xml")

\* epub_xhtml_items: one item for each path, in the order of the list
EpubXhtmlItems(xhtml_file_paths) ==
    [k \in 1..Len(xhtml_file_paths) |-> EpubHtmlItem(xhtml_file_paths[k])]

\* image items for every path of the list, whether its file exists or not
EpubImageItems_Unchecked(image_oebps_paths, images) ==
    [k \in 1..Len(image_oebps_paths) |->
        EpubItem(PathStem(image_oebps_paths[k]), image_oebps_paths[k],
                 get_image_media_type(image_oebps_paths[k]))]

\* the image items: one for each path whose file exists under OEBPS
EpubImageItems(image_oebps_paths, images) ==
    LET present == SelectSeq(image_oebps_paths,
                             LAMBDA q : \E n \in DOMAIN images : q = PathJoin(ImagesDirName, n))
    IN [k \in 1..Len(present) |->
            EpubItem(PathStem(present[k]), present[k], get_image_media_type(present[k]))]

\* the entry of the table of contents for an item
TocLink(item) ==
    [href |-> item.file_name, uid |-> item.uid,
     title |-> Title(Replace(item.uid, <<"_">>, <<" ">>))]

\* the book create_epub_file assembles before it writes it: disk is the
\* working directory (its stylesheet and the files of its Images directory)
EpubBook(xhtml_file_paths, image_oebps_paths, css_oebps_path, disk) ==
    LET css_items == IF css_oebps_path = StylesheetOebpsPath /\ disk.stylesheet.exists
                     THEN <<EpubItem(<<"s", "t", "y", "l", "e", "_", "s", "h", "e", "e", "t">>,
                                     css_oebps_path, "text/css")>>
                     ELSE <<>>
        epub_xhtml_items == EpubXhtmlItems(xhtml_file_paths)
        nav == EpubItem(NavUid, NavFileName, "application/xhtml+xml")
        ncx == EpubItem(NcxUid, NcxFileName, "application/x-dtbncx+xml")
    IN [items |-> css_items \o epub_xhtml_items
                    \o EpubImageItems(image_oebps_paths, disk.images) \o <<ncx, nav>>,
        toc |-> [k \in 1..Len(epub_xhtml_items) |-> TocLink(epub_xhtml_items[k])],
        spine |-> <<nav>> \o epub_xhtml_items]

\* the reading order of a book: the file names of its spine after 'nav'
ReadingOrder(book) == [k \in 1..(Len(book.spine) - 1) |-> book.spine[k + 1].file_name]

\* the file names its table of contents links to, in order
TocOrder(book) == [k \in 1..Len(book.toc) |-> book.toc[k].href]

\* a book with nothing in it: the value of the output path's book while no
\* artifact is there
NoBook == [items |-> <<>>, toc |-> <<>>, spine |-> <<>>]

\* no file at the output path
NoEpub == [state |-> "absent", book |-> NoBook]

\* what epub.write_epub may do: write the whole archive, fail before it
\* opens the destination, or fail after it has started writing it
WriteOutcomes == {"written", "unwritable", "interrupted"}

\* a packaging that writes nothing when it is given no page
create_epub_file_SkipsEmpty(epub_file, xhtml_file_paths, image_oebps_paths, css_oebps_path, disk, write_outcome) ==
    IF xhtml_file_paths # <<>> /\ write_outcome = "written"
    THEN [state |-> "complete",
          book |-> EpubBook(xhtml_file_paths, image_oebps_paths, css_oebps_path, disk)]
    ELSE epub_file

\* create_epub_file: the file at epub_path after the call; the exception of
\* a failed write is caught and printed
create_epub_file(epub_file, xhtml_file_paths, image_oebps_paths, css_oebps_path, disk, write_outcome) ==
    LET book == EpubBook(xhtml_file_paths, image_oebps_paths, css_oebps_path, disk)
    IN IF write_outcome = "written" THEN [state |-> "complete", book |-> book]
       ELSE IF write_outcome = "interrupted" THEN [state |-> "partial", book |-> NoBook]
       ELSE epub_file

\* the parameters of create_epub_file, none of which has a default
CreateEpubFileParameters ==
    {"epub_path", "title", "language", "identifier", "xhtml_file_paths",
     "image_oebps_paths", "css_oebps_path", "work_dir"}

\* the keywords the packaging call of the command-line run passes
MainCallKeywords ==
    {"epub_path", "title", "language", "identifier", "xhtml_file_paths",
     "image_paths_within_oebps", "css_path_within_oebps", "work_dir"}

\* Python binds a keyword call when every keyword is a parameter and every
\* parameter without a default gets a value; otherwise the call raises
\* TypeError before the body runs
CallBinds(keywords, parameters) == keywords \subseteq parameters /\ parameters \subseteq keywords

(***************************************************************************)
(* The inputs of a command-line run.                                       *)
(***************************************************************************)
Markup == <<"<", "p", "/", ">">>

\* answers of the renderer in a run over a whole document
DocumentResponses ==
    { Raised("api_error"), ContentNone, Content(<<>>),
      Content(Markup), Content(FenceXml \o <<"\n">> \o Markup \o <<"\n">> \o Fence) }

\* answers of the renderer in a run over a one-page document
PageResponses ==
    { Raised("error"), Content(Markup), Content(<<" ">>),
      Content(Fence \o <<"\n">> \o Markup \o <<"\n">> \o Fence),
      Content(Fence \o <<"x", "h", "t", "m", "l", "\n">> \o Markup \o <<"\n">> \o Fence) }

\* the element list of every page of a whole document: a text and an image
DocumentElementLists == {<<TextElement, ImageElement(RefPicture)>>}

\* the page_no values of the pages that carry one
DocumentPageNumbers == {1}

\* the pages of a whole document: with or without page_no
DocumentPages ==
    {Page(FALSE, 0, TRUE, els) : els \in DocumentElementLists}
    \cup {Page(TRUE, n, TRUE, els) : n \in DocumentPageNumbers, els \in DocumentElementLists}

\* the elements of a one-page document
PageElements == {TextElement, ImageNoRef, ImageElement(<<>>)} \cup {ImageElement(r) : r \in Refs}

\* the one-page documents: with or without the 'elements' key
SinglePages ==
    {Page(FALSE, 0, TRUE, els) : els \in SeqUpTo(PageElements, MaxElems)}
    \cup {Page(FALSE, 0, FALSE, <<>>)}

\* the levels a heading of the layout may carry
HeadingLevels == {-1, 0, 1, 2}

\* the elements of a page with headings
HeadingElements ==
    {TextElement, HeadingElement(FALSE, 0)} \cup {HeadingElement(TRUE, l) : l \in HeadingLevels}

\* the one-page documents with headings
HeadingPages == {Page(FALSE, 0, TRUE, els) : els \in SeqUpTo(HeadingElements, MaxElems) \ {<<>>}}

\* a PDF that docling cannot convert
UnparsedPdf == [parses |-> FALSE, pages |-> <<>>]
ParsedPdf(pages) == [parses |-> TRUE, pages |-> pages]

\* layout_json_data = {}
EmptyLayout == [empty |-> TRUE, pages |-> <<>>]

(***************************************************************************)
(* ImageExtractor (pdf_to_epub_converter/image_extractor.py).              *)
(***************************************************************************)
\* a file name that leaves the page out
FilenameBase_NoPage(page_num, img_index) == <<"i", "m", "g">> \o Decimal(img_index)

\* f"page{page_num}_img{img_index}"
FilenameBase(page_num, img_index) ==
    <<"p", "a", "g", "e">> \o Decimal(page_num) \o <<"_", "i", "m", "g">> \o Decimal(img_index)

\* a choice that keeps the extension of a format it converts
SaveFormat_KeepsExt(original_format) ==
    IF original_format \in {"JPEG", "JPG"} THEN [save_format |-> "JPEG", ext |-> <<"j", "p", "g">>]
    ELSE IF original_format = "PNG" THEN [save_format |-> "PNG", ext |-> <<"p", "n", "g">>]
    ELSE [save_format |-> "PNG", ext |-> <<"g", "i", "f">>]

\* the format and the extension the image is saved with
SaveFormat(original_format) ==
    IF original_format \in {"JPEG", "JPG"} THEN [save_format |-> "JPEG", ext |-> <<"j", "p", "g">>]
    ELSE IF original_format = "PNG" THEN [save_format |-> "PNG", ext |-> <<"p", "n", "g">>]
    ELSE [save_format |-> "PNG", ext |-> <<"p", "n", "g">>]

\* f"{filename_base}.{ext}"
OutputFilename(page_num, img_index, original_format) ==
    FilenameBase(page_num, img_index) \o <<".">> \o SaveFormat(original_format).ext

\* what an image of the PDF may be: extract_image raises, or gives nothing,
\* or gives bytes that PIL cannot open, or that open with no format, or that
\* open with a format and then save or fail to save
ImageKinds ==
    {[extract |-> "raises", format |-> "NONE", saves |-> FALSE],
     [extract |-> "empty", format |-> "NONE", saves |-> FALSE],
     [extract |-> "bytes", format |-> "UNREADABLE", saves |-> FALSE],
     [extract |-> "bytes", format |-> "NONE", saves |-> FALSE]}
    \cup {[extract |-> "bytes", format |-> f, saves |-> sv] :
              f \in {"JPEG", "PNG", "GIF"}, sv \in BOOLEAN}

\* what an image is to the loop: what extract_image, PIL and the save do with it
ImageClass(image) ==
    IF image.extract = "raises" THEN "extract_raises"
    ELSE IF image.extract = "empty" THEN "no_image"
    ELSE IF image.format \in {"UNREADABLE", "NONE"} THEN "decode_fails"
    ELSE IF ~image.saves THEN "save_fails"
    ELSE "savable"

\* ImageExtractor._save_image: the name of the file it saved, if it saved one
\* (every exception is caught and gives (None, None))
SaveImage(image, page_num, img_index) ==
    IF image.format \in {"UNREADABLE", "NONE"} \/ ~image.saves
    THEN [saved |-> FALSE, filename |-> <<>>, save_format |-> "NONE"]
    ELSE [saved |-> TRUE,
          filename |-> OutputFilename(page_num, img_index, image.format),
          save_format |-> SaveFormat(image.format).save_format]

\* the entry appended to self.image_references for a saved image; the path
\* is relative to the parent of the folder "OEBPS/Images"
ImageReference(filename, page_num_actual, img_index) ==
    [page_number |-> page_num_actual,
     saved_path |-> PathJoin(ImagesDirName, filename),
     item |-> img_index + 1]

(***************************************************************************)
(* LayoutRefinerLLM (pdf_to_epub_converter/layout_refiner.py).             *)
(***************************************************************************)
PromptMarginTop == 72
PromptMarginLeft == 72
PromptMarginRight == 72
PromptMarginBottom == 60
PromptLeftOffset == 72
PromptTopOffset == 72

\* _build_system_prompt: the margins it states (lines 54-57) and the
\* offsets of the positioning rule it gives the renderer (lines 65-66)
BuildSystemPrompt ==
    [margin_top |-> PromptMarginTop, margin_left |-> PromptMarginLeft,
     margin_right |-> PromptMarginRight, margin_bottom |-> PromptMarginBottom,
     left_offset |-> PromptLeftOffset, top_offset |-> PromptTopOffset]

\* a box kept inside the content area
PromptBox_Clamped(bbox, prompt) ==
    [left |-> IF bbox[1] < prompt.left_offset THEN 0 ELSE bbox[1] - prompt.left_offset,
     top |-> IF bbox[2] < prompt.top_offset THEN 0 ELSE bbox[2] - prompt.top_offset,
     width |-> bbox[3] - bbox[1],
     height |-> bbox[4] - bbox[2]]

\* lines 64-68: the box the prompt tells the renderer to give an element
PromptBox(bbox, prompt) ==
    [left |-> bbox[1] - prompt.left_offset,
     top |-> bbox[2] - prompt.top_offset,
     width |-> bbox[3] - bbox[1],
     height |-> bbox[4] - bbox[2]]

\* lines 100-105: user_content_payload
UserContentPayload(page_elements_json, page_width, page_height, page_number) ==
    [page_width |-> page_width, page_height |-> page_height,
     page_number |-> page_number, elements |-> page_elements_json]

FenceXhtmlNewline == Fence \o <<"x", "h", "t", "m", "l", "\n">>
NewlineFence == <<"\n">> \o Fence

\* lines 123-128: the two removals, then strip()
StripXhtmlFence(refined_xhtml) ==
    LET opened == IF StartsWith(refined_xhtml, FenceXhtmlNewline)
                  THEN Slice(refined_xhtml, Len(FenceXhtmlNewline) + 1, Len(refined_xhtml))
                  ELSE refined_xhtml
        closed == IF EndsWith(opened, NewlineFence)
                  THEN Slice(opened, 1, Len(opened) - Len(NewlineFence))
                  ELSE opened
    IN Strip(closed)

\* str(e) of the exception of a failed call
ErrorText == <<"e">>

\* line 132: the string returned when anything raised
ErrorDiv ==
    <<"<", "d", "i", "v", " ", "s", "t", "y", "l", "e", "=", "'", "c", "o", "l", "o", "r", ":", "r", "e", "d", ";", "'", ">">>
    \o <<"E", "r", "r", "o", "r", " ", "g", "e", "n", "e", "r", "a", "t", "i", "n", "g", " ", "X", "H", "T", "M", "L", ":", " ">>
    \o ErrorText \o <<"<", "/", "d", "i", "v", ">">>

\* refine_layout: the string it returns; a content of None raises at
\* startswith and is caught like an exception of the call
refine_layout(response) ==
    IF response.kind = "content" THEN StripXhtmlFence(response.content) ELSE ErrorDiv

\* the bounding boxes of the elements given to refine_layout
Bboxes == {<<x0, y0, x1, y1>> : x0 \in {0, 72}, y0 \in {72}, x1 \in {72, 300}, y1 \in {72, 100}}

\* the elements given to refine_layout
LayoutElements == {[type |-> t, bbox |-> b] : t \in {"text", "image"}, b \in Bboxes}

\* the answers of the renderer to refine_layout
RefinerResponses ==
    { Raised("error"), ContentNone, Content(<<>>), Content(<<" ">>), Content(Markup),
      Content(FenceXhtmlNewline \o Markup \o NewlineFence),
      Content(FenceXml \o <<"\n">> \o Markup \o NewlineFence) }

(***************************************************************************)
(* The stylesheet files of repeated calls of create_global_stylesheet.     *)
(***************************************************************************)
StylePaths == {"Styles/style.css", "other/style.css"}

\* a file left at the path by something else
StaleFile == [exists |-> TRUE, content |-> <<CssRule("body", <<>>)>>]

VARIABLES
    pc,                    \* where the command-line run is
    api_key,               \* OPENAI_API_KEY: "unset", "empty" or "set"
    pdf,                   \* the input PDF: whether it parses, and its layout
    renderer_responses,    \* the answers the renderer may give in this run
    openai_client,         \* openai_client is not None
    stylesheet,            \* the file OEBPS/Styles/style.css
    doc_object_from_parse, \* doc_object_from_parse is not None
    layout_json_data,      \* layout_json_data
    image_references_map,  \* image_references_map
    images_files,          \* the files of OEBPS/Images: name -> ref of the image saved
    xhtml_files,           \* xhtml_files
    text_files,            \* the files of OEBPS/Text: name -> content
    i,                     \* pages the loop has processed
    renderer_calls,        \* the requests sent to the renderer so far
    page_results,          \* what refine_page_to_xhtml returned for each page so far
    last_refine,           \* the last call of refine_page_to_xhtml: the renderer's
                           \* answer, and whether the page file could be written
    called,                \* the functions the run has called so far
    epub_file,             \* the file at the output path
    error,                 \* the exception that ended the run, or "none"
    \* ImageExtractor
    extractor_pc,          \* where extract_images_from_pdf is
    fitz_doc,              \* the PDF: whether it opens, and the images on each page
    page_num_idx,          \* page_num_idx of the outer loop
    img_index,             \* img_index of the inner loop
    image_references,      \* self.image_references
    folder_files,          \* the files of the output folder: name -> [page, index, format]
    last_image,            \* what the image of the last turn of the inner loop was
    \* LayoutRefinerLLM
    refiner_pc,            \* where the caller of LayoutRefinerLLM is
    refiner_key,           \* the api key the constructor finds: "unset", "empty", "set"
    layout_input,          \* the arguments of refine_layout
    refiner_request,       \* the messages sent to the renderer, once sent
    refined_xhtml,         \* the string refine_layout returned
    refiner_response,      \* the answer of the renderer to the call
    refiner_output,        \* the file the caller saves the returned string in
    \* create_global_stylesheet, called again and again
    style_files,           \* the file at each stylesheet path
    style_calls,           \* the calls made so far
    style_last,            \* how the last call on each path ended, "none" before it
    \* create_epub_file, called on its own
    package_pc,            \* "call" before the call, then "returned" or "raised"
    package_args,          \* the arguments, and the file at epub_path before the call
    package_disk,          \* the files under work_dir / "OEBPS"
    package_book,          \* the book handed to epub.write_epub
    package_write,         \* what epub.write_epub did, "none" before it
    package_file,          \* the file at epub_path
    \* the file name of an origin reference
    sanitize_pc,           \* "ref" before the name is derived, then "named"
    sanitize_ref,          \* img_ref
    sanitize_name,         \* image_filename
    \* extract_and_save_images, called on its own
    images_pc,             \* "call" before the call, then "returned"
    images_input,          \* the document, the layout, and what happens to each image
    images_result,         \* the mapping returned and the files of the Images directory
    \* ImageExtractor._save_image, called on its own
    save_pc,               \* "call" before the call, then "returned"
    save_input,            \* the image, page_num and img_index
    save_result            \* the file saved, its format and its media type in the package

run_vars == <<pc, api_key, pdf, renderer_responses, openai_client, stylesheet,
          doc_object_from_parse, layout_json_data, image_references_map, images_files,
          xhtml_files, text_files, i, renderer_calls, page_results, last_refine,
          called, epub_file, error>>

extractor_vars == <<extractor_pc, fitz_doc, page_num_idx, img_index, image_references,
                    folder_files, last_image>>

refiner_vars == <<refiner_pc, refiner_key, layout_input, refiner_request, refined_xhtml,
                  refiner_response, refiner_output>>

style_vars == <<style_files, style_calls, style_last>>

packager_vars == <<package_pc, package_args, package_disk, package_book, package_write,
                   package_file>>

sanitizer_vars == <<sanitize_pc, sanitize_ref, sanitize_name>>

images_vars == <<images_pc, images_input, images_result>>

saver_vars == <<save_pc, save_input, save_result>>

more_vars == <<packager_vars, sanitizer_vars, images_vars, saver_vars>>

vars == <<run_vars, extractor_vars, refiner_vars, style_vars, more_vars>>

\* no command-line run
NoRun ==
    /\ pc = "none"
    /\ api_key = "unset"
    /\ pdf = UnparsedPdf
    /\ renderer_responses = {}
    /\ openai_client = FALSE
    /\ stylesheet = NoFile
    /\ doc_object_from_parse = FALSE
    /\ layout_json_data = EmptyLayout
    /\ image_references_map = <<>>
    /\ images_files = NoFiles
    /\ xhtml_files = <<>>
    /\ text_files = NoFiles
    /\ i = 0
    /\ renderer_calls = <<>>
    /\ page_results = <<>>
    /\ last_refine = [response |-> ContentNone, write_ok |-> TRUE]
    /\ called = {}
    /\ epub_file = NoEpub
    /\ error = "none"

\* no ImageExtractor
NoExtractor ==
    /\ extractor_pc = "none"
    /\ fitz_doc = [opens |-> FALSE, images |-> <<>>]
    /\ page_num_idx = 0
    /\ img_index = 0
    /\ image_references = <<>>
    /\ folder_files = NoFiles
    /\ last_image = "none"

\* no LayoutRefinerLLM
NoRefiner ==
    /\ refiner_pc = "none"
    /\ refiner_key = "unset"
    /\ layout_input = UserContentPayload(<<>>, 0, 0, 0)
    /\ refiner_request = [sent |-> FALSE, system |-> BuildSystemPrompt,
                          user |-> UserContentPayload(<<>>, 0, 0, 0)]
    /\ refined_xhtml = <<>>
    /\ refiner_response = ContentNone
    /\ refiner_output = NoFile

\* no repeated stylesheet calls
NoStyleCalls ==
    /\ style_files = [p \in StylePaths |-> NoFile]
    /\ style_calls = 0
    /\ style_last = [p \in StylePaths |-> "none"]

\* no call of create_epub_file on its own
NoPackager ==
    /\ package_pc = "none"
    /\ package_args = [xhtml_file_paths |-> <<>>, image_oebps_paths |-> <<>>,
                       css_oebps_path |-> StylesheetOebpsPath, epub_before |-> NoEpub]
    /\ package_disk = [stylesheet |-> NoFile, images |-> NoFiles, text |-> NoFiles]
    /\ package_book = NoBook
    /\ package_write = "none"
    /\ package_file = NoEpub

\* no origin reference to name
NoSanitizer ==
    /\ sanitize_pc = "none"
    /\ sanitize_ref = <<>>
    /\ sanitize_name = <<>>

\* no call of extract_and_save_images on its own
NoImages ==
    /\ images_pc = "none"
    /\ images_input = [has_pictures |-> FALSE, pages |-> <<>>, outcomes |-> <<>>]
    /\ images_result = [map |-> <<>>, files |-> NoFiles]

NoSavedImage == [saved |-> FALSE, filename |-> <<>>, save_format |-> "NONE", media_type |-> "none"]

\* _save_image is not called on its own
NoSaver ==
    /\ save_pc = "none"
    /\ save_input = [image |-> [extract |-> "empty", format |-> "NONE", saves |-> FALSE],
                     page_num |-> 0, img_index |-> 0]
    /\ save_result = NoSavedImage

NoMore == NoPackager /\ NoSanitizer /\ NoImages /\ NoSaver

\* lines 518-528: the state of a run before the client is set up
InitRun ==
    /\ pc = "client"
    /\ api_key \in {"unset", "empty", "set"}
    /\ openai_client = FALSE
    /\ stylesheet = NoFile
    /\ doc_object_from_parse = FALSE
    /\ layout_json_data = EmptyLayout
    /\ image_references_map = <<>>
    /\ images_files = NoFiles
    /\ xhtml_files = <<>>
    /\ text_files = NoFiles
    /\ i = 0
    /\ renderer_calls = <<>>
    /\ page_results = <<>>
    /\ last_refine = [response |-> ContentNone, write_ok |-> TRUE]
    /\ called = {}
    /\ epub_file = NoEpub
    /\ error = "none"

\* a run over a whole document
InitDocument ==
    /\ pdf \in {UnparsedPdf} \cup {ParsedPdf(ps) : ps \in SeqUpTo(DocumentPages, MaxPages)}
    /\ renderer_responses = DocumentResponses
    /\ InitRun

\* a run over a one-page document
InitPage ==
    /\ pdf \in {ParsedPdf(<<p>>) : p \in SinglePages}
    /\ renderer_responses = PageResponses
    /\ InitRun

Init == (InitDocument \/ InitPage) /\ NoExtractor /\ NoRefiner /\ NoStyleCalls /\ NoMore

\* lines 530-537: os.getenv gives None or "" without a usable key; the
\* constructor of the client may raise
ClientSetup ==
    /\ pc = "client"
    /\ \E constructed \in BOOLEAN :
           openai_client' = IF api_key = "set" THEN constructed ELSE FALSE
    /\ pc' = "stylesheet"
    /\ UNCHANGED <<more_vars, extractor_vars, refiner_vars, style_vars,
                   api_key, pdf, renderer_responses, stylesheet, doc_object_from_parse,
                   layout_json_data, image_references_map, images_files, xhtml_files,
                   text_files, i, renderer_calls, page_results, last_refine, called, epub_file, error>>

\* lines 539-540
CreateStylesheet ==
    /\ pc = "stylesheet"
    /\ \E outcome \in StylesheetOutcomes :
           stylesheet' = create_global_stylesheet(stylesheet, outcome)
    /\ pc' = "parse"
    /\ called' = called \cup {"create_global_stylesheet"}
    /\ UNCHANGED <<more_vars, extractor_vars, refiner_vars, style_vars,
                   api_key, pdf, renderer_responses, openai_client, doc_object_from_parse,
                   layout_json_data, image_references_map, images_files, xhtml_files,
                   text_files, i, renderer_calls, page_results, last_refine, epub_file, error>>

\* lines 542-545 and 598-599: parse_pdf_to_layout_json gives (None, {}) on
\* failure; without a document the run ends here
ParsePdf ==
    /\ pc = "parse"
    /\ doc_object_from_parse' = pdf.parses
    /\ layout_json_data' = IF pdf.parses THEN [empty |-> FALSE, pages |-> pdf.pages]
                           ELSE EmptyLayout
    /\ pc' = IF pdf.parses THEN "extract" ELSE "done"
    /\ called' = called \cup {"parse_pdf_to_layout_json"}
    /\ UNCHANGED <<more_vars, extractor_vars, refiner_vars, style_vars,
                   api_key, pdf, renderer_responses, openai_client, stylesheet,
                   image_references_map, images_files, xhtml_files, text_files, i,
                   renderer_calls, page_results, last_refine, epub_file, error>>

\* lines 548-556
ExtractImages ==
    /\ pc = "extract"
    /\ \E has_pictures \in BOOLEAN,
          outcomes \in [1..Len(LayoutImageRefs(layout_json_data.pages)) -> ImageOutcomes] :
           LET r == extract_and_save_images(has_pictures, layout_json_data.pages,
                                            outcomes, images_files)
           IN /\ image_references_map' = r.map
              /\ images_files' = r.files
    /\ pc' = "refine"
    /\ called' = called \cup {"extract_and_save_images"}
    /\ UNCHANGED <<more_vars, extractor_vars, refiner_vars, style_vars,
                   api_key, pdf, renderer_responses, openai_client, stylesheet,
                   doc_object_from_parse, layout_json_data, xhtml_files, text_files, i,
                   renderer_calls, page_results, last_refine, epub_file, error>>

\* a refinement that runs whenever there is a page
RefinementRuns_WithoutClient == layout_json_data.pages # <<>>

\* line 558: the refinement runs with a client and at least one page
RefinementRuns == openai_client /\ layout_json_data.pages # <<>>

\* lines 576-579
SkipRefinement ==
    /\ pc = "refine"
    /\ ~RefinementRuns
    /\ pc' = "package"
    /\ UNCHANGED <<more_vars, extractor_vars, refiner_vars, style_vars,
                   api_key, pdf, renderer_responses, openai_client, stylesheet,
                   doc_object_from_parse, layout_json_data, image_references_map,
                   images_files, xhtml_files, text_files, i, renderer_calls,
                   page_results, last_refine, called, epub_file, error>>

\* a default page number counted from 0
ActualPageNumber_FromZero(page, index) == IF page.has_page_no THEN page.page_no ELSE index

\* line 562: page_content_from_layout.get('page_no', i + 1), i counted from 0
ActualPageNumber(page, index) == IF page.has_page_no THEN page.page_no ELSE index + 1

\* a list that grows at the front
AppendResult_AtFront(files, result) == IF result.ok THEN <<result.path>> \o files ELSE files

\* lines 568-569: the list after one page's result
AppendResult(files, result) == IF result.ok THEN Append(files, result.path) ELSE files

\* lines 561-569: one turn of the loop
RefinePage ==
    /\ pc = "refine"
    /\ RefinementRuns
    /\ i < Len(layout_json_data.pages)
    /\ \E response \in renderer_responses :
        \E write_ok \in (IF WriteAttempted(response) THEN BOOLEAN ELSE {TRUE}) :
           LET page == layout_json_data.pages[i + 1]
               actual_page_number == ActualPageNumber(page, i)
               request == PageDataForLlm(page, image_references_map)
               result == refine_page_to_xhtml(response, write_ok, actual_page_number)
               after == InputsAfterCall(page, image_references_map)
           IN /\ layout_json_data' = [layout_json_data EXCEPT !.pages[i + 1] = after.page_data]
              /\ image_references_map' = after.image_references
              /\ renderer_calls' = Append(renderer_calls,
                                          [page_number |-> actual_page_number,
                                           request |-> request])
              /\ page_results' = Append(page_results,
                                        [page_number |-> actual_page_number,
                                         ok |-> result.ok, path |-> result.path])
              /\ text_files' = IF result.ok
                               THEN FsWrite(text_files, PathName(result.path), result.content)
                               ELSE text_files
              /\ xhtml_files' = AppendResult(xhtml_files, result)
              /\ last_refine' = [response |-> response, write_ok |-> write_ok]
    /\ i' = i + 1
    /\ called' = called \cup {"refine_page_to_xhtml"}
    /\ UNCHANGED <<more_vars, extractor_vars, refiner_vars, style_vars,
                   pc, api_key, pdf, renderer_responses, openai_client, stylesheet,
                   doc_object_from_parse, images_files, epub_file, error>>

\* lines 571-575: the loop is over
EndRefinement ==
    /\ pc = "refine"
    /\ RefinementRuns
    /\ i = Len(layout_json_data.pages)
    /\ pc' = "package"
    /\ UNCHANGED <<more_vars, extractor_vars, refiner_vars, style_vars,
                   api_key, pdf, renderer_responses, openai_client, stylesheet,
                   doc_object_from_parse, layout_json_data, image_references_map,
                   images_files, xhtml_files, text_files, i, renderer_calls,
                   page_results, last_refine, called, epub_file, error>>

\* the working directory as create_epub_file reads it
Disk == [stylesheet |-> stylesheet, images |-> images_files, text |-> text_files]

\* lines 581-595: the packaging call; a call that does not bind raises
\* TypeError, which nothing catches
PackageEpub ==
    /\ pc = "package"
    /\ xhtml_files # <<>>
    /\ \E write_outcome \in WriteOutcomes :
           IF CallBinds(MainCallKeywords, CreateEpubFileParameters)
           THEN /\ epub_file' = create_epub_file(epub_file, xhtml_files,
                                                 DictValues(image_references_map),
                                                 StylesheetOebpsPath, Disk, write_outcome)
                /\ pc' = "done"
                /\ error' = error
           ELSE /\ epub_file' = epub_file
                /\ pc' = "crashed"
                /\ error' = "TypeError"
    /\ called' = called \cup {"create_epub_file"}
    /\ UNCHANGED <<more_vars, extractor_vars, refiner_vars, style_vars,
                   api_key, pdf, renderer_responses, openai_client, stylesheet,
                   doc_object_from_parse, layout_json_data, image_references_map,
                   images_files, xhtml_files, text_files, i, renderer_calls, page_results, last_refine>>

\* lines 596-597
SkipPackaging ==
    /\ pc = "package"
    /\ xhtml_files = <<>>
    /\ pc' = "done"
    /\ UNCHANGED <<more_vars, extractor_vars, refiner_vars, style_vars,
                   api_key, pdf, renderer_responses, openai_client, stylesheet,
                   doc_object_from_parse, layout_json_data, image_references_map,
                   images_files, xhtml_files, text_files, i, renderer_calls,
                   page_results, last_refine, called, epub_file, error>>

Next ==
    \/ ClientSetup
    \/ CreateStylesheet
    \/ ParsePdf
    \/ ExtractImages
    \/ SkipRefinement
    \/ RefinePage
    \/ EndRefinement
    \/ PackageEpub
    \/ SkipPackaging

Spec == Init /\ [][Next]_vars

\* the runs over a one-page document with headings
InitHeadings ==
    /\ pdf \in {ParsedPdf(<<p>>) : p \in HeadingPages}
    /\ renderer_responses = PageResponses
    /\ InitRun
    /\ NoExtractor /\ NoRefiner /\ NoStyleCalls /\ NoMore

SpecHeadings == InitHeadings /\ [][Next]_vars

\* the runs over whole documents
InitWholeDocument == InitDocument /\ NoExtractor /\ NoRefiner /\ NoStyleCalls /\ NoMore

SpecDocument == InitWholeDocument /\ [][Next]_vars

\* the run is a sequential program: it takes its next step while it has one
FairSpec == SpecDocument /\ WF_vars(Next)

(***************************************************************************)
(* ImageExtractor.extract_images_from_pdf, image by image.                 *)
(***************************************************************************)
\* the PDFs: the number of images on each page
FitzDocs ==
    {[opens |-> FALSE, images |-> <<>>]}
    \cup {[opens |-> TRUE, images |-> n] : n \in SeqUpTo(0..MaxPageImages, MaxPdfPages)}

InitExtractor ==
    /\ extractor_pc = "start"
    /\ fitz_doc \in FitzDocs
    /\ page_num_idx = 0
    /\ img_index = 0
    /\ image_references \in {<<>>, <<ImageReference(<<"o", "l", "d">>, 1, 0)>>}
    /\ folder_files = NoFiles
    /\ last_image = "none"
    /\ NoRun /\ NoRefiner /\ NoStyleCalls /\ NoMore

\* lines 56-61: the list is reset; a PDF that does not open gives []
OpenPdf ==
    /\ extractor_pc = "start"
    /\ image_references' = <<>>
    /\ extractor_pc' = IF fitz_doc.opens THEN "pages" ELSE "returned"
    /\ UNCHANGED <<more_vars, run_vars, refiner_vars, style_vars, fitz_doc, page_num_idx, img_index,
                   folder_files, last_image>>

\* lines 68-89: one image of the current page
ExtractImage ==
    /\ extractor_pc = "pages"
    /\ page_num_idx < Len(fitz_doc.images)
    /\ img_index < fitz_doc.images[page_num_idx + 1]
    /\ \E image \in ImageKinds :
           LET page_num_actual == page_num_idx + 1
               saved == SaveImage(image, page_num_actual, img_index)
           IN /\ last_image' = ImageClass(image)
              /\ IF image.extract = "raises"
                 THEN /\ extractor_pc' = "crashed"
                      /\ UNCHANGED <<img_index, image_references, folder_files>>
                 ELSE /\ extractor_pc' = extractor_pc
                      /\ img_index' = img_index + 1
                      /\ image_references' =
                             IF image.extract = "bytes" /\ saved.saved
                             THEN Append(image_references,
                                         ImageReference(saved.filename, page_num_actual, img_index))
                             ELSE image_references
                      /\ folder_files' =
                             IF image.extract = "bytes" /\ saved.saved
                             THEN FsWrite(folder_files, saved.filename,
                                          [page |-> page_num_actual, index |-> img_index,
                                           format |-> saved.save_format])
                             ELSE folder_files
    /\ UNCHANGED <<more_vars, run_vars, refiner_vars, style_vars, fitz_doc, page_num_idx>>

\* lines 63 and 91-106: the images of the page are done (its drawings change
\* nothing), on to the next page
NextPdfPage ==
    /\ extractor_pc = "pages"
    /\ page_num_idx < Len(fitz_doc.images)
    /\ img_index = fitz_doc.images[page_num_idx + 1]
    /\ page_num_idx' = page_num_idx + 1
    /\ img_index' = 0
    /\ UNCHANGED <<more_vars, run_vars, refiner_vars, style_vars, extractor_pc, fitz_doc,
                   image_references, folder_files, last_image>>

\* lines 108-109
ClosePdf ==
    /\ extractor_pc = "pages"
    /\ page_num_idx = Len(fitz_doc.images)
    /\ extractor_pc' = "returned"
    /\ UNCHANGED <<more_vars, run_vars, refiner_vars, style_vars, fitz_doc, page_num_idx, img_index,
                   image_references, folder_files, last_image>>

NextExtractor == OpenPdf \/ ExtractImage \/ NextPdfPage \/ ClosePdf

SpecExtractor == InitExtractor /\ [][NextExtractor]_vars

(***************************************************************************)
(* LayoutRefinerLLM: the constructor, then refine_layout.                  *)
(***************************************************************************)
InitRefiner ==
    /\ refiner_pc = "new"
    /\ refiner_key \in {"unset", "empty", "set"}
    /\ layout_input \in {UserContentPayload(els, 612, 792, 1) :
                            els \in SeqUpTo(LayoutElements, MaxLayoutElems)}
    /\ refiner_request = [sent |-> FALSE, system |-> BuildSystemPrompt,
                          user |-> UserContentPayload(<<>>, 0, 0, 0)]
    /\ refined_xhtml = <<>>
    /\ refiner_response = ContentNone
    /\ refiner_output = NoFile
    /\ NoRun /\ NoExtractor /\ NoStyleCalls /\ NoMore

\* lines 6-12: without a key the constructor raises ValueError
NewRefiner ==
    /\ refiner_pc = "new"
    /\ refiner_pc' = IF refiner_key = "set" THEN "ready" ELSE "value_error"
    /\ UNCHANGED <<more_vars, run_vars, extractor_vars, style_vars, refiner_key, layout_input,
                   refiner_request, refined_xhtml, refiner_response, refiner_output>>

\* lines 99-132
RefineLayout ==
    /\ refiner_pc = "ready"
    /\ \E response \in RefinerResponses :
           /\ refiner_request' = [sent |-> TRUE, system |-> BuildSystemPrompt,
                                  user |-> UserContentPayload(layout_input.elements,
                                                               layout_input.page_width,
                                                               layout_input.page_height,
                                                               layout_input.page_number)]
           /\ refined_xhtml' = refine_layout(response)
           /\ refiner_response' = response
    /\ refiner_pc' = "returned"
    /\ UNCHANGED <<more_vars, run_vars, extractor_vars, style_vars, refiner_key, layout_input,
                   refiner_output>>

\* lines 196-209: the caller of refine_layout saves the string it got as
\* the fragment of the page, whatever the string is
SaveLayoutOutput ==
    /\ refiner_pc = "returned"
    /\ \E io_ok \in BOOLEAN :
           refiner_output' = IF io_ok THEN WriteFile(refiner_output, refined_xhtml)
                             ELSE refiner_output
    /\ refiner_pc' = "saved"
    /\ UNCHANGED <<more_vars, run_vars, extractor_vars, style_vars, refiner_key, layout_input,
                   refiner_request, refined_xhtml, refiner_response>>

NextRefiner == NewRefiner \/ RefineLayout \/ SaveLayoutOutput

SpecRefiner == InitRefiner /\ [][NextRefiner]_vars

(***************************************************************************)
(* create_global_stylesheet, called again and again.                       *)
(***************************************************************************)
InitStylesheet ==
    /\ style_files \in [StylePaths -> {NoFile, StaleFile, WriteFile(NoFile, CssContent)}]
    /\ style_calls = 0
    /\ style_last = [p \in StylePaths |-> "none"]
    /\ NoRun /\ NoExtractor /\ NoRefiner /\ NoMore

\* one call, on any of the paths
CallCreateGlobalStylesheet ==
    /\ style_calls < MaxStyleCalls
    /\ \E stylesheet_path \in StylePaths, outcome \in StylesheetOutcomes :
           /\ style_files' = [style_files EXCEPT ![stylesheet_path] =
                                  create_global_stylesheet(@, outcome)]
           /\ style_last' = [style_last EXCEPT ![stylesheet_path] = outcome]
    /\ style_calls' = style_calls + 1
    /\ UNCHANGED <<more_vars, run_vars, extractor_vars, refiner_vars>>

NextStylesheet == CallCreateGlobalStylesheet

SpecStylesheet == InitStylesheet /\ [][NextStylesheet]_vars

\* the stylesheet generator and the layout refiner at work on one book: the
\* stylesheet is written, and a page of one element is rendered, in any order
InitMargins ==
    /\ style_files \in [StylePaths -> {NoFile, StaleFile}]
    /\ style_calls = 0
    /\ style_last = [p \in StylePaths |-> "none"]
    /\ refiner_pc = "new"
    /\ refiner_key \in {"unset", "set"}
    /\ layout_input = UserContentPayload(<<[type |-> "text", bbox |-> <<72, 72, 300, 100>>]>>,
                                         612, 792, 1)
    /\ refiner_request = [sent |-> FALSE, system |-> BuildSystemPrompt,
                          user |-> UserContentPayload(<<>>, 0, 0, 0)]
    /\ refined_xhtml = <<>>
    /\ refiner_response = ContentNone
    /\ refiner_output = NoFile
    /\ NoRun /\ NoExtractor /\ NoMore

NextMargins == NextStylesheet \/ NextRefiner

SpecMargins == InitMargins /\ [][NextMargins]_vars

(***************************************************************************)
(* create_epub_file, called on its own.                                    *)
(***************************************************************************)
\* the page files the list may name
PackagePagePaths == {XhtmlFilePath(1), XhtmlFilePath(2)}

\* the image paths the list may name
PackageImagePaths ==
    {PathJoin(ImagesDirName, <<"a", ".", "p", "n", "g">>),
     PathJoin(ImagesDirName, <<"b", ".", "j", "p", "g">>)}

\* a directory that holds the files of the given names
FilesNamed(names) == [n \in names |-> n]

\* an artifact left at epub_path by an earlier run
OldEpub ==
    [state |-> "complete",
     book |-> EpubBook(<<XhtmlFilePath(1)>>, <<>>, StylesheetOebpsPath,
                       [stylesheet |-> NoFile, images |-> NoFiles, text |-> NoFiles])]

\* line 432, xhtml_file_path.read_bytes(): a page file of the list that is
\* not there raises FileNotFoundError, outside any try
PageFileMissing(xhtml_file_paths, text) ==
    \E k \in 1..Len(xhtml_file_paths) : PathName(xhtml_file_paths[k]) \notin DOMAIN text

InitPackager ==
    /\ package_pc = "call"
    /\ \E pages \in SeqUpTo(PackagePagePaths, MaxPackagePages),
          images \in SeqUpTo(PackageImagePaths, MaxPackageImages),
          before \in {NoEpub, OldEpub} :
           /\ package_args = [xhtml_file_paths |-> pages, image_oebps_paths |-> images,
                              css_oebps_path |-> StylesheetOebpsPath, epub_before |-> before]
           /\ package_file = before
    /\ \E sheet \in {NoFile, WriteFile(NoFile, CssContent)},
          image_names \in SUBSET {PathName(q) : q \in PackageImagePaths},
          page_names \in SUBSET {PathName(q) : q \in PackagePagePaths} :
           package_disk = [stylesheet |-> sheet, images |-> FilesNamed(image_names),
                           text |-> FilesNamed(page_names)]
    /\ package_book = NoBook
    /\ package_write = "none"
    /\ NoRun /\ NoExtractor /\ NoRefiner /\ NoStyleCalls /\ NoSanitizer /\ NoImages /\ NoSaver

\* lines 384-483: one call
CallCreateEpubFile ==
    /\ package_pc = "call"
    /\ IF PageFileMissing(package_args.xhtml_file_paths, package_disk.text)
       THEN /\ package_pc' = "raised"
            /\ UNCHANGED <<package_book, package_write, package_file>>
       ELSE \E write_outcome \in WriteOutcomes :
            /\ package_book' = EpubBook(package_args.xhtml_file_paths,
                                        package_args.image_oebps_paths,
                                        package_args.css_oebps_path, package_disk)
            /\ package_write' = write_outcome
            /\ package_file' = create_epub_file(package_file, package_args.xhtml_file_paths,
                                                package_args.image_oebps_paths,
                                                package_args.css_oebps_path, package_disk,
                                                write_outcome)
            /\ package_pc' = "returned"
    /\ UNCHANGED <<saver_vars, run_vars, extractor_vars, refiner_vars, style_vars, sanitizer_vars,
                   images_vars, package_args, package_disk>>

NextPackager == CallCreateEpubFile

SpecPackager == InitPackager /\ [][NextPackager]_vars

(***************************************************************************)
(* extract_and_save_images, called on its own.                             *)
(***************************************************************************)
\* the layouts: no page, or one page
ImagesLayouts == {<<>>} \cup {<<p>> : p \in SinglePages}

InitImages ==
    /\ images_pc = "call"
    /\ \E has_pictures \in BOOLEAN, pages \in ImagesLayouts :
           \E outcomes \in [1..Len(LayoutImageRefs(pages)) -> ImageOutcomes] :
               images_input = [has_pictures |-> has_pictures, pages |-> pages,
                               outcomes |-> outcomes]
    /\ images_result = [map |-> <<>>, files |-> NoFiles]
    /\ NoRun /\ NoExtractor /\ NoRefiner /\ NoStyleCalls /\ NoPackager /\ NoSanitizer /\ NoSaver

\* lines 87-161: one call
CallExtractAndSaveImages ==
    /\ images_pc = "call"
    /\ images_result' = extract_and_save_images(images_input.has_pictures, images_input.pages,
                                                images_input.outcomes, NoFiles)
    /\ images_pc' = "returned"
    /\ UNCHANGED <<saver_vars, run_vars, extractor_vars, refiner_vars, style_vars, packager_vars,
                   sanitizer_vars, images_input>>

NextImages == CallExtractAndSaveImages

SpecImages == InitImages /\ [][NextImages]_vars

\* the two image extractions
InitExtraction == InitExtractor \/ InitImages

NextExtraction == NextExtractor \/ NextImages

SpecExtraction == InitExtraction /\ [][NextExtraction]_vars

(***************************************************************************)
(* The file name extract_and_save_images gives an origin reference.        *)
(***************************************************************************)
\* the characters of the origin references
RefChars == {"#", "/", "a"}

\* the origin references a name is derived for: img_ref is not empty
OriginRefs == SeqUpTo(RefChars, MaxRefLen) \ {<<>>}

InitSanitizer ==
    /\ sanitize_pc = "ref"
    /\ sanitize_ref \in OriginRefs
    /\ sanitize_name = <<>>
    /\ NoRun /\ NoExtractor /\ NoRefiner /\ NoStyleCalls /\ NoPackager /\ NoImages /\ NoSaver

\* lines 136-137
DeriveImageFilename ==
    /\ sanitize_pc = "ref"
    /\ sanitize_name' = ImageFilename(sanitize_ref)
    /\ sanitize_pc' = "named"
    /\ UNCHANGED <<saver_vars, run_vars, extractor_vars, refiner_vars, style_vars, packager_vars,
                   images_vars, sanitize_ref>>

NextSanitizer == DeriveImageFilename

SpecSanitizer == InitSanitizer /\ [][NextSanitizer]_vars

(***************************************************************************)
(* Properties of the command-line run.                                     *)
(***************************************************************************)
\* the loop over the pages is over
LoopOver == pc \in {"package", "done", "crashed"}

\* the results of the pages that were built, in the order of the loop
BuiltResults == SelectSeq(page_results, LAMBDA r : r.ok)

\* the package file names of the built pages, in the order of the loop
BuiltFileNames ==
    [k \in 1..Len(BuiltResults) |->
        PathJoin(TextDirName, XhtmlFileName(BuiltResults[k].page_number))]

\* the book create_epub_file assembles from the state of the run
AssembledBook ==
    EpubBook(xhtml_files, DictValues(image_references_map), StylesheetOebpsPath, Disk)

\* the page number a package file name stands for
PageNumberOf(file_name) ==
    CHOOSE n \in 0..9 : PathJoin(TextDirName, XhtmlFileName(n)) = file_name

\* C1: once the loop is over, the reading order of the book assembled from
\* the accumulated fragment list (the spine after 'nav', and the table of
\* contents) is exactly the successfully built pages in the order in which
\* they were processed; a failed page has no entry of any kind.
C1_ReadingOrderIsBuiltPages ==
    LoopOver =>
        LET book == AssembledBook
        IN /\ book.spine[1].uid = NavUid
           /\ ReadingOrder(book) = BuiltFileNames
           /\ TocOrder(book) = BuiltFileNames

\* pages 1, 2, 3 were processed, page 2 failed, and the loop is over
C1_Witness ==
    /\ pc = "package"
    /\ Len(page_results) = 3
    /\ [k \in 1..3 |-> page_results[k].page_number] = <<1, 2, 3>>
    /\ [k \in 1..3 |-> page_results[k].ok] = <<TRUE, FALSE, TRUE>>
    /\ ReadingOrder(AssembledBook) =
           <<PathJoin(TextDirName, XhtmlFileName(1)), PathJoin(TextDirName, XhtmlFileName(3))>>

\* C2: once the loop is over, the reading order of the assembled book is
\* strictly ascending in page number, whatever order the page numbers of
\* the layout document come in.
C2_ReadingOrderAscending ==
    LoopOver =>
        LET order == ReadingOrder(AssembledBook)
        IN \A j \in 1..Len(order), k \in 1..Len(order) :
               j < k => PageNumberOf(order[j]) < PageNumberOf(order[k])

\* the last call of refine_page_to_xhtml failed in one of the three ways:
\* the renderer raised, its content was None or empty, the write failed
LastPageFailed(refine) ==
    \/ refine.response.kind \in {"api_error", "error", "none"}
    \/ refine.response.content = <<>>
    \/ ~refine.write_ok

\* C3 (at every turn of the loop): a page whose renderer call raises or gives
\* no content, or whose file cannot be written, gets None: it is not appended
\* and the fragment list and the page files are left as they were; the turn
\* still counts the page as processed.
C3_FailedTurn ==
    (i' = i + 1 /\ LastPageFailed(last_refine')) =>
        /\ ~page_results'[i'].ok
        /\ xhtml_files' = xhtml_files
        /\ text_files' = text_files
        /\ pc' = "refine"
        /\ error' = "none"

\* C3 (in every state): every page the loop has passed was submitted to the
\* renderer, and when the loop is over that is every page of the layout.
C3_EveryPageSubmitted ==
    /\ Len(renderer_calls) = i
    /\ [k \in 1..i |-> renderer_calls[k].page_number] =
           [k \in 1..i |-> ActualPageNumber(layout_json_data.pages[k], k - 1)]
    /\ (LoopOver /\ RefinementRuns) => i = Len(layout_json_data.pages)

C4_PackageWritten ==
    (pc \in {"done", "crashed"} /\ xhtml_files # <<>>) =>
        /\ pc = "done"
        /\ epub_file.state = "complete"
        /\ ReadingOrder(epub_file.book) = BuiltFileNames

\* C5 (in every state): without a credential the renderer is never called,
\* no fragment is produced, nothing is written at the output path and no
\* exception ends the run; the stylesheet and the parsing are not skipped,
\* and the images of a document that parses are extracted.
C5_NoCredentialState ==
    api_key # "set" =>
        /\ ~openai_client
        /\ renderer_calls = <<>>
        /\ xhtml_files = <<>>
        /\ text_files = NoFiles
        /\ epub_file = NoEpub
        /\ "refine_page_to_xhtml" \notin called
        /\ "create_epub_file" \notin called
        /\ error = "none"
        /\ pc # "crashed"
        /\ pc = "done" =>
               /\ "create_global_stylesheet" \in called
               /\ "parse_pdf_to_layout_json" \in called
               /\ pdf.parses => "extract_and_save_images" \in called

\* C5: without a credential the run completes, in the state above.
C5_NoCredentialRun ==
    /\ []C5_NoCredentialState
    /\ (api_key # "set") ~> (pc = "done")

\* a run without a credential is over; it wrote the stylesheet and extracted an image
C5_Witness ==
    /\ api_key = "unset"
    /\ pc = "done"
    /\ stylesheet.exists
    /\ image_references_map # <<>>
    /\ xhtml_files = <<>>
    /\ epub_file = NoEpub

\* the source elements of the page of the k-th renderer call
SourceElements(k) == ElementsOf(layout_json_data.pages[k])

\* the image elements of the k-th call whose ref is a key of the mapping
MappedImages(k) ==
    {j \in 1..Len(SourceElements(k)) :
        /\ SourceElements(k)[j].type = "image"
        /\ SourceElements(k)[j].has_ref
        /\ DictHas(image_references_map, SourceElements(k)[j].ref)}

\* C6 (as stated): the ref an image element carries in the renderer request
\* is the mapping's path for its origin reference, verbatim.
C6_RequestCarriesMappedPath ==
    \A k \in 1..Len(renderer_calls) : \A j \in MappedImages(k) :
        renderer_calls[k].request.elements[j].ref =
            DictGet(image_references_map, SourceElements(k)[j].ref)

\* C6 (amended): the ref an image element carries in the renderer request is
\* the file name of the mapping's path: the mapping's path is that ref under
\* the directory "Images/".
C6_RequestCarriesMappedFileName ==
    \A k \in 1..Len(renderer_calls) : \A j \in MappedImages(k) :
        /\ PathJoin(ImagesDirName, renderer_calls[k].request.elements[j].ref) =
               DictGet(image_references_map, SourceElements(k)[j].ref)
        /\ \A c \in 1..Len(renderer_calls[k].request.elements[j].ref) :
               renderer_calls[k].request.elements[j].ref[c] # "/"

\* a request was sent for a page with an image whose ref "#/a" is mapped
C6_Witness ==
    /\ Len(renderer_calls) = 1
    /\ MappedImages(1) # {}
    /\ \E j \in MappedImages(1) :
           /\ SourceElements(1)[j].ref = RefPicture
           /\ renderer_calls[1].request.elements[j].ref = <<"a", ".", "p", "n", "g">>

\* C8: the mapping from origin reference to packaged path is injective, and
\* the file of every mapped reference holds the image of that reference.
C8_ImagePathsInjective ==
    /\ \A a \in 1..Len(image_references_map), b \in 1..Len(image_references_map) :
           a # b => image_references_map[a][2] # image_references_map[b][2]
    /\ \A a \in 1..Len(image_references_map) :
           images_files[PathName(image_references_map[a][2])] = image_references_map[a][1]

(***************************************************************************)
(* Properties of the ImageExtractor.                                       *)
(***************************************************************************)
\* C7: the file names generated during one extract_images_from_pdf run are
\* pairwise distinct: two saved images with different (page number, index
\* in the page) pairs have different output file names, whatever their
\* formats, and no file of the folder was written by two images.
C7_FileNamesDistinct ==
    extractor_pc # "start" =>
        /\ \A a \in 1..Len(image_references), b \in 1..Len(image_references) :
               a # b =>
                   /\ <<image_references[a].page_number, image_references[a].item>> #
                          <<image_references[b].page_number, image_references[b].item>>
                   /\ image_references[a].saved_path # image_references[b].saved_path
        /\ \A a \in 1..Len(image_references) :
               LET file == folder_files[PathName(image_references[a].saved_path)]
               IN /\ file.page = image_references[a].page_number
                  /\ file.index + 1 = image_references[a].item

\* the run is over; image 0 of page 1 was saved as a JPEG and image 0 of
\* page 2 as a PNG
C7_Witness ==
    /\ extractor_pc = "returned"
    /\ \E a \in 1..Len(image_references), b \in 1..Len(image_references) :
           /\ image_references[a].saved_path =
                  PathJoin(ImagesDirName, <<"p", "a", "g", "e", "1", "_", "i", "m", "g", "0",
                                            ".", "j", "p", "g">>)
           /\ image_references[b].saved_path =
                  PathJoin(ImagesDirName, <<"p", "a", "g", "e", "2", "_", "i", "m", "g", "0",
                                            ".", "p", "n", "g">>)

(***************************************************************************)
(* Properties of the LayoutRefinerLLM.                                     *)
(***************************************************************************)
\* the box of the k-th element of the request, by the rule of the request's
\* system prompt
RequestBox(k) == PromptBox(refiner_request.user.elements[k].bbox, refiner_request.system)

StylesheetOfOneCall == create_global_stylesheet(NoFile, "written")

\* C10: every call of create_global_stylesheet that writes, writes the same
\* content: after any number of calls on a path, the last of which wrote
\* the file, the file is the one a single call leaves, whatever was at the
\* path before and whatever happened at the other paths.
C10_StylesheetIdempotent ==
    \A p \in StylePaths :
        style_last[p] = "written" => style_files[p] = StylesheetOfOneCall

\* two calls or more, all of them on one path and the last of them written
C10_Witness ==
    /\ style_calls >= 2
    /\ \E p \in StylePaths :
           /\ style_last[p] = "written"
           /\ \A q \in StylePaths \ {p} : style_last[q] = "none"

(***************************************************************************)
(* Properties of create_epub_file.                                         *)
(***************************************************************************)
\* C11: given an empty list of page fragments create_epub_file does not
\* fail: it returns, having handed to the writer a book whose table of
\* contents is empty and whose reading order holds no content page (the
\* spine is the navigation entry alone), and the artifact the writer writes
\* at the destination is that book.
C11_EmptyListStillPackaged ==
    (package_pc \in {"returned", "raised"} /\ package_args.xhtml_file_paths = <<>>) =>
        /\ package_pc = "returned"
        /\ package_write # "none"
        /\ package_book.toc = <<>>
        /\ Len(package_book.spine) = 1
        /\ package_book.spine[1].uid = NavUid
        /\ ReadingOrder(package_book) = <<>>
        /\ package_write = "written" =>
               package_file = [state |-> "complete", book |-> package_book]

\* a call with an empty list has written its artifact over no earlier one
C11_Witness ==
    /\ package_pc = "returned"
    /\ package_args.xhtml_file_paths = <<>>
    /\ package_args.epub_before = NoEpub
    /\ package_write = "written"
    /\ package_file.state = "complete"
    /\ package_file.book.toc = <<>>
    /\ Len(package_file.book.spine) = 1

\* the paths of the images list whose file is in the Images directory
ImagesOnDisk ==
    SelectSeq(package_args.image_oebps_paths,
              LAMBDA q : PathName(q) \in DOMAIN package_disk.images)

\* the items of the assembled book that are images of the list
ImageItemsOfBook ==
    SelectSeq(package_book.items,
              LAMBDA item : \E k \in 1..Len(package_args.image_oebps_paths) :
                                package_args.image_oebps_paths[k] = item.file_name)

\* C12: an image path of the list whose file does not exist under the
\* working directory is skipped: the book has no item for it, it has one
\* item for every path of the list whose file exists, in the order of the
\* list, and the call goes on to the write step.
C12_MissingImageSkipped ==
    package_pc = "returned" =>
        /\ [k \in 1..Len(ImageItemsOfBook) |-> ImageItemsOfBook[k].file_name] = ImagesOnDisk
        /\ package_write # "none"

\* the list names two different images, the file of the first is missing,
\* and the written book has the second
C12_Witness ==
    /\ package_pc = "returned"
    /\ Len(package_args.image_oebps_paths) = 2
    /\ package_args.image_oebps_paths[1] # package_args.image_oebps_paths[2]
    /\ PathName(package_args.image_oebps_paths[1]) \notin DOMAIN package_disk.images
    /\ PathName(package_args.image_oebps_paths[2]) \in DOMAIN package_disk.images
    /\ package_write = "written"
    /\ Len(ImageItemsOfBook) = 1
    /\ ImageItemsOfBook[1].file_name = package_args.image_oebps_paths[2]

\* C13: the output write is all-or-nothing: after create_epub_file has
\* returned or raised, the destination holds a complete artifact or what it
\* held before the call; never a partial file.
C13_WriteAllOrNothing ==
    package_pc \in {"returned", "raised"} =>
        \/ package_file.state = "complete"
        \/ package_file = package_args.epub_before

\* C16: a failure to write the artifact at the destination is reported to
\* the caller of create_epub_file as a failure: the call does not return
\* normally.
C16_WriteFailureReported ==
    package_write \in {"unwritable", "interrupted"} => package_pc = "raised"

(***************************************************************************)
(* Properties of the image extractions.                                    *)
(***************************************************************************)
\* the origin references of the layout given to extract_and_save_images
InputRefs == LayoutImageRefs(images_input.pages)

\* C14, extract_and_save_images: the call always returns; a reference has an
\* entry in the mapping exactly when one of its images was decoded and
\* saved, whatever happened to the other images; without images the mapping
\* is empty.
C14_ImagesResult ==
    images_pc = "returned" =>
        /\ images_input.has_pictures =>
               \A k \in 1..Len(InputRefs) :
                   DictHas(images_result.map, InputRefs[k]) <=>
                       \E j \in 1..Len(InputRefs) :
                           InputRefs[j] = InputRefs[k] /\ images_input.outcomes[j] = "saved"
        /\ \A k \in 1..Len(images_result.map) :
               \E j \in 1..Len(InputRefs) : InputRefs[j] = images_result.map[k][1]
        /\ InputRefs = <<>> => images_result.map = <<>>

\* C14, ImageExtractor (at every turn of the inner loop): an image whose
\* decoding or saving fails gets no entry, the entries so far stay and the
\* loop goes on with the next image; an image that can be decoded and saved
\* gets its entry.
C14_ExtractorTurn ==
    /\ (last_image' \in {"decode_fails", "save_fails"} /\ img_index' = img_index + 1) =>
           /\ image_references' = image_references
           /\ extractor_pc' = "pages"
    /\ (last_image' = "savable" /\ img_index' = img_index + 1) =>
           /\ Len(image_references') = Len(image_references) + 1
           /\ SubSeq(image_references', 1, Len(image_references)) = image_references
           /\ image_references'[Len(image_references')].page_number = page_num_idx + 1
           /\ image_references'[Len(image_references')].item = img_index + 1

\* C14, ImageExtractor (in every state): a failed decoding or saving never
\* ends the extraction, a returned extraction has been through every page,
\* and a PDF without images gives an empty list.
C14_ExtractorState ==
    /\ last_image \in {"decode_fails", "save_fails"} => extractor_pc # "crashed"
    /\ (extractor_pc = "returned" /\ fitz_doc.opens) => page_num_idx = Len(fitz_doc.images)
    /\ (extractor_pc = "returned" /\ \A k \in 1..Len(fitz_doc.images) : fitz_doc.images[k] = 0)
           => image_references = <<>>

C15_FilenameHasNoUnsafeCharacter ==
    sanitize_pc = "named" =>
        \A k \in 1..Len(sanitize_name) : sanitize_name[k] \notin {"/", "#"}

(***************************************************************************)
(* ImageExtractor._save_image, one call, and the media type the packager   *)
(* gives the file it saved.                                                *)
(***************************************************************************)
\* the images whose bytes reach _save_image
SavableKinds == {image \in ImageKinds : image.extract = "bytes"}

InitSaver ==
    /\ save_pc = "call"
    /\ save_input \in [image : SavableKinds, page_num : 1..(MaxPdfPages + 1),
                        img_index : 0..MaxPageImages]
    /\ save_result = NoSavedImage
    /\ NoRun /\ NoExtractor /\ NoRefiner /\ NoStyleCalls
    /\ NoPackager /\ NoSanitizer /\ NoImages

\* lines 13-48, and get_image_media_type on the name of the file
CallSaveImage ==
    /\ save_pc = "call"
    /\ LET saved == SaveImage(save_input.image, save_input.page_num, save_input.img_index)
       IN save_result' = [saved |-> saved.saved, filename |-> saved.filename,
                          save_format |-> saved.save_format,
                          media_type |-> IF saved.saved
                                         THEN get_image_media_type(saved.filename)
                                         ELSE "none"]
    /\ save_pc' = "returned"
    /\ UNCHANGED <<run_vars, extractor_vars, refiner_vars, style_vars,
                   packager_vars, sanitizer_vars, images_vars, save_input>>

NextSaver == CallSaveImage

SpecSaver == InitSaver /\ [][NextSaver]_vars

\* C23: a saved image whose decoded format is JPEG is a JPEG file named
\* .jpg, a saved image of any other format is a PNG file named .png; the
\* extension matches the format and the packager gives the file the media
\* type image/jpeg or image/png, never the fallback.
C23_FormatNormalized ==
    (save_pc = "returned" /\ save_result.saved) =>
        LET origin == save_input.image.format
            suffix == PathSuffix(save_result.filename)
        IN /\ origin = "JPEG" =>
                  /\ save_result.save_format = "JPEG"
                  /\ suffix = <<".", "j", "p", "g">>
                  /\ save_result.media_type = "image/jpeg"
           /\ origin # "JPEG" =>
                  /\ save_result.save_format = "PNG"
                  /\ suffix = <<".", "p", "n", "g">>
                  /\ save_result.media_type = "image/png"

\* a GIF was saved as a PNG file
C23_Witness ==
    /\ save_pc = "returned"
    /\ save_input.image.format = "GIF"
    /\ save_result.saved
    /\ save_result.save_format = "PNG"
    /\ save_result.media_type = "image/png"

(***************************************************************************)
(* Properties of the renderer answers.                                     *)
(***************************************************************************)
\* the renderer failed: the call raised, or the response was None or empty
RendererFailed(response) == response.kind # "content" \/ response.content = <<>>

\* C17: when the call raised or the response was empty, refine_layout
\* returns nothing its caller takes for a rendered page fragment: the caller
\* saves no fragment for the page.
C17_FailureGivesNoFragment ==
    (refiner_pc = "saved" /\ RendererFailed(refiner_response)) => ~refiner_output.exists

\* the characters of the code-fence marker (the backquote is written "^")
FenceChar == "^"

\* the language tags a fence may carry
LanguageTags == {<<"x", "m", "l">>, <<"x", "h", "t", "m", "l">>, <<"h", "t", "m", "l">>}

\* a fragment that is markup alone: no fence marker, no language tag at its
\* start, no whitespace at either end
MarkupAlone(fragment) ==
    /\ \A k \in 1..Len(fragment) : fragment[k] # FenceChar
    /\ \A tag \in LanguageTags : ~StartsWith(fragment, tag)
    /\ fragment # <<>> => (fragment[1] \notin Whitespace /\ fragment[Len(fragment)] \notin Whitespace)

\* C18: the fragment accepted for a page (the content of its page file) is
\* the markup the response enclosed, alone: it has no fence marker and no
\* language tag and no whitespace at its ends.
C18_AcceptedFragmentIsMarkupAlone ==
    \A n \in DOMAIN text_files : MarkupAlone(text_files[n])

\* C19: no accepted fragment is the empty string: a response that is empty
\* after fence stripping and trimming writes no page file and the page does
\* not enter the fragment list.
C19_NoEmptyFragment ==
    /\ \A n \in DOMAIN text_files : text_files[n] # <<>>
    /\ \A k \in 1..Len(xhtml_files) : text_files[PathName(xhtml_files[k])] # <<>>

\* the image elements of the k-th call that have a non-empty ref which is
\* not a key of the mapping
UnmappedImages(k) ==
    {j \in 1..Len(SourceElements(k)) :
        /\ SourceElements(k)[j].type = "image"
        /\ SourceElements(k)[j].has_ref
        /\ SourceElements(k)[j].ref # <<>>
        /\ ~DictHas(image_references_map, SourceElements(k)[j].ref)}

IsLastComponent(r, ref) ==
    /\ \A c \in 1..Len(r) : r[c] # "/"
    /\ EndsWith(ref, r)
    /\ Len(ref) > Len(r) => ref[Len(ref) - Len(r)] = "/"

C21_HeadingLevelAtLeastOne ==
    \A k \in 1..Len(renderer_calls) :
        \A j \in 1..Len(ElementsOf(renderer_calls[k].request)) :
            LET element == ElementsOf(renderer_calls[k].request)[j]
            IN element.type = "heading" => (element.has_level /\ element.level >= 1)

\* the request element is the source element, up to the ref of an image
SameElement(sent, source) ==
    IF source.type = "image"
    THEN sent.type = "image" /\ sent.has_ref = source.has_ref
         /\ (sent.ref = source.ref \/ IsLastComponent(sent.ref, source.ref)
             \/ (DictHas(image_references_map, source.ref)
                 /\ sent.ref = PathName(DictGet(image_references_map, source.ref))))
    ELSE sent = source

\* C22: the elements of every renderer request are the page's elements in
\* source order: as many as the page has, the j-th of the request being the
\* j-th of the page; none is dropped, duplicated or reordered.
C22_RequestKeepsSourceOrder ==
    \A k \in 1..Len(renderer_calls) :
        LET sent == ElementsOf(renderer_calls[k].request)
        IN /\ Len(sent) = Len(SourceElements(k))
           /\ renderer_calls[k].request.has_elements = layout_json_data.pages[k].has_elements
           /\ \A j \in 1..Len(sent) : SameElement(sent[j], SourceElements(k)[j])

\* a page of a text followed by a mapped image was sent in that order
C22_Witness ==
    /\ Len(renderer_calls) = 1
    /\ SourceElements(1) = <<TextElement, ImageElement(RefPicture)>>
    /\ ElementsOf(renderer_calls[1].request)[1] = TextElement
    /\ ElementsOf(renderer_calls[1].request)[2].type = "image"
    /\ ElementsOf(renderer_calls[1].request)[2].ref # RefPicture

(***************************************************************************)
(* Properties of the page margins.                                         *)
(***************************************************************************)
\* the margins of the @page rule of a stylesheet: top, left, right, bottom
PageMargins(content) ==
    LET rules == SelectSeq(content, LAMBDA rule : rule.selector = "@page")
    IN IF rules = <<>> THEN <<>> ELSE rules[1].margins

\* the margins a system prompt states: top, left, right, bottom
StatedMargins(prompt) ==
    <<prompt.margin_top, prompt.margin_left, prompt.margin_right, prompt.margin_bottom>>

\* C24: the margins are one value across the pipeline: the @page margins of
\* every stylesheet the generator wrote (72, 72, 72, 60) are the margins
\* the renderer's system prompt states, and the offsets of the coordinate
\* transform are the left and the top margin.
C24_MarginsAgree ==
    /\ \A p \in StylePaths :
           style_last[p] = "written" =>
               /\ PageMargins(style_files[p].content) = StatedMargins(refiner_request.system)
               /\ PageMargins(style_files[p].content) = <<72, 72, 72, 60>>
    /\ refiner_request.sent =>
           /\ StatedMargins(refiner_request.system) = PageMargins(StylesheetOfOneCall.content)
           /\ refiner_request.system.left_offset = PageMargins(StylesheetOfOneCall.content)[2]
           /\ refiner_request.system.top_offset = PageMargins(StylesheetOfOneCall.content)[1]

\* a stylesheet has been written and a request has been sent
C24_Witness ==
    /\ refiner_request.sent
    /\ \E p \in StylePaths :
           /\ style_last[p] = "written"
           /\ PageMargins(style_files[p].content) = StatedMargins(refiner_request.system)

(***************************************************************************)
(* Properties of the phases of the run.                                    *)
(***************************************************************************)
\* the page number of the k-th page of the layout (k counted from 1)
LayoutPageNumber(k) ==
    IF layout_json_data.pages[k].has_page_no THEN layout_json_data.pages[k].page_no ELSE k

\* the state of a phased run
C25_PhaseState ==
    /\ renderer_calls # <<>> => ("extract_and_save_images" \in called /\ pc # "extract")
    /\ Len(renderer_calls) = i
    /\ Len(page_results) = i
    /\ i <= Len(layout_json_data.pages)
    /\ \A k \in 1..i :
           /\ renderer_calls[k].page_number = LayoutPageNumber(k)
           /\ page_results[k].page_number = LayoutPageNumber(k)
    /\ "create_epub_file" \in called =>
           (renderer_calls # <<>> /\ i = Len(layout_json_data.pages))

\* a step that submits a page submits one page, records its outcome, and
\* leaves the image mapping and the images as they are; no step after the
\* first submission changes the mapping
C25_PhaseStep ==
    /\ renderer_calls' # renderer_calls =>
           /\ "create_epub_file" \notin called
           /\ Len(renderer_calls') = Len(renderer_calls) + 1
           /\ SubSeq(renderer_calls', 1, Len(renderer_calls)) = renderer_calls
           /\ Len(page_results') = Len(page_results) + 1
           /\ SubSeq(page_results', 1, Len(page_results)) = page_results
           /\ image_references_map' = image_references_map
           /\ images_files' = images_files
    /\ renderer_calls # <<>> => image_references_map' = image_references_map

\* C25: the run is phased: the image extraction is over and the mapping
\* complete before the first renderer call; the pages are submitted one at
\* a time in layout order and each outcome is recorded before the next page;
\* no page build changes the mapping; packaging starts after the last page.
C25_StrictlyPhased == [][C25_PhaseStep]_vars /\ [](C25_PhaseState)

\* a run over two pages or more with images reached the packaging call
C25_Witness ==
    /\ "create_epub_file" \in called
    /\ Len(renderer_calls) >= 2
    /\ image_references_map # <<>>
    /\ \E k \in 1..Len(page_results) : ~page_results[k].ok

(***************************************************************************)
(* Properties of the inputs of refine_page_to_xhtml.                       *)
(***************************************************************************)
\* a call of refine_page_to_xhtml leaves the layout and the mapping alone
C26_CallKeepsInputs ==
    renderer_calls' # renderer_calls =>
        /\ layout_json_data' = layout_json_data
        /\ image_references_map' = image_references_map

\* C26: refine_page_to_xhtml leaves its inputs unchanged whether it succeeds
\* or fails: the layout (each image element's original ref included) and
\* the image mapping are after the call what they were before it, the
\* layout being the one the parse produced; only the copy is rewritten.
C26_InputsUnchanged ==
    /\ [][C26_CallKeepsInputs]_vars
    /\ [](doc_object_from_parse => layout_json_data.pages = pdf.pages)

\* two calls, one that built its page and one that failed, both with a
\* request whose image ref is not the ref of the layout
C26_Witness ==
    /\ Len(renderer_calls) >= 2
    /\ \E a \in 1..Len(page_results), b \in 1..Len(page_results) :
           /\ page_results[a].ok
           /\ ~page_results[b].ok
           /\ renderer_calls[a].request.elements # SourceElements(a)
           /\ renderer_calls[b].request.elements # SourceElements(b)

(***************************************************************************)
(* Properties of the cross-references to images.                           *)
(***************************************************************************)
\* the components of a path with every ".." resolved against what precedes it
RECURSIVE ResolveParts(_, _)
ResolveParts(parts, acc) ==
    IF parts = <<>> THEN acc
    ELSE IF Head(parts) = <<".", ".">>
         THEN ResolveParts(Tail(parts), IF acc = <<>> THEN acc ELSE SubSeq(acc, 1, Len(acc) - 1))
         ELSE ResolveParts(Tail(parts), Append(acc, Head(parts)))

RECURSIVE JoinParts(_)
JoinParts(parts) ==
    IF parts = <<>> THEN <<>>
    ELSE IF Len(parts) = 1 THEN parts[1]
    ELSE parts[1] \o <<"/">> \o JoinParts(Tail(parts))

\* the path inside the package that an href of a fragment under Text/ names
ResolveFromText(href) == JoinParts(ResolveParts(SplitOn(href, "/"), <<TextDirName>>))

\* the src the prompt tells the renderer to write for a ref: "../Images/{ref}"
ImageSrc(ref) == <<".", ".", "/">> \o ImagesDirName \o <<"/">> \o ref

\* C27: for every origin reference of the mapping, the file name sent in the
\* request, written as "../Images/<name>" in a fragment under Text/, names
\* exactly the path the mapping records for the reference; the image file
\* is on disk under that name, and that path is the path create_epub_file
\* gives the image item.
C27_CrossReferencesResolve ==
    \A k \in 1..Len(renderer_calls) : \A j \in MappedImages(k) :
        LET path == DictGet(image_references_map, SourceElements(k)[j].ref)
            name == renderer_calls[k].request.elements[j].ref
            items == EpubImageItems(DictValues(image_references_map), images_files)
        IN /\ ResolveFromText(ImageSrc(name)) = path
           /\ name \in DOMAIN images_files
           /\ \E n \in 1..Len(items) : items[n].file_name = path

\* a page with a mapped image "#/a" was sent: the request names "a.png"
C27_Witness ==
    /\ Len(renderer_calls) >= 1
    /\ \E j \in MappedImages(1) :
           /\ SourceElements(1)[j].ref = RefPicture
           /\ renderer_calls[1].request.elements[j].ref = <<"a", ".", "p", "n", "g">>
           /\ DictGet(image_references_map, RefPicture) =
                  <<"I", "m", "a", "g", "e", "s", "/", "a", ".", "p", "n", "g">>

(***************************************************************************)
(* Properties of the page files of a run.                                  *)
(***************************************************************************)
\* C28: every successful page build writes a file that no earlier page of
\* the run wrote: the entries of the fragment list name pairwise distinct
\* files, and there are as many page files as pages built.
C28_PageFilesDistinct ==
    /\ \A a \in 1..Len(xhtml_files), b \in 1..Len(xhtml_files) :
           a # b => xhtml_files[a] # xhtml_files[b]
    /\ Cardinality(DOMAIN text_files) = Len(xhtml_files)

(***************************************************************************)
(* Properties of the items of the package.                                 *)
(***************************************************************************)
\* C29: in every package create_epub_file assembles, no two items share an
\* identifier and no two items share a path inside the package.
C29_ItemsUniquelyAddressable ==
    package_pc = "returned" =>
        \A a \in 1..Len(package_book.items), b \in 1..Len(package_book.items) :
            a # b =>
                /\ package_book.items[a].uid # package_book.items[b].uid
                /\ package_book.items[a].file_name # package_book.items[b].file_name
====
